---- MODULE Spec2Model ----
(***************************************************************************)
(* Model of src/QualitySystemChocolate.py: the product classes (Chocolate, *)
(* MoldedChocolate, PackagedChocolate), the VisualSensor and the           *)
(* QualityControlSystem (sensor registry, inspection, result ledger and    *)
(* the two reports).  One control system and one product are modelled; the *)
(* product's class is chosen when it is constructed.  The 'date' field of  *)
(* a ledger record (datetime.now(), only printed by show_inspections) and  *)
(* the mold/packaging attribute strings (never read) are not modelled.     *)
(***************************************************************************)
EXTENDS Integers, Sequences, FiniteSets

VARIABLES chocolate_type, batch_id, defects, quality_status,
          sensors, results, call, inspections, ncalls

vars == <<chocolate_type, batch_id, defects, quality_status,
          sensors, results, call, inspections, ncalls>>

product == <<chocolate_type, batch_id, defects, quality_status>>

(* ---------------------------- bounds ----------------------------------- *)
\* number of calls the client makes on the control system and the product
MaxCalls == 4
\* number of add_defect / evaluate_quality calls made on a product alone
MaxProductCalls == 7

(* ------------------------- vocabulary ---------------------------------- *)
DefectType == {"BUBBLES", "BREAKAGE", "INCORRECT_SHAPE", "STAINS",
               "MISSING_PIECE", "DAMAGED_PACKAGING"}

\* DefectType.<member>.value
DefectValue(d) ==
  CASE d = "BUBBLES"           -> "air_bubbles"
    [] d = "BREAKAGE"          -> "breakage"
    [] d = "INCORRECT_SHAPE"   -> "incorrect_shape"
    [] d = "STAINS"            -> "stains"
    [] d = "MISSING_PIECE"     -> "missing_piece"
    [] d = "DAMAGED_PACKAGING" -> "damaged_packaging"

QualityStatus == {"APPROVED", "REJECTED", "PENDING"}

\* QualityStatus.<member>.value
StatusValue(s) ==
  CASE s = "APPROVED" -> "approved"
    [] s = "REJECTED" -> "rejected"
    [] s = "PENDING"  -> "pending"

ChocolateTypes == {"Chocolate", "MoldedChocolate", "PackagedChocolate"}
\* the batch id the caller gives a product of each class
BatchIdOf(type) ==
  CASE type = "MoldedChocolate"   -> "BATCH-M-1"
    [] type = "PackagedChocolate" -> "BATCH-P-1"
    [] OTHER                      -> "BATCH-1"
Processes == {"molding", "packaging"}
SensorIds == {"sensorA", "sensorB"}
None == "None"
UnregisteredProcessError == "ValueError: No sensor registered for process"

Range(s) == {s[i] : i \in 1..Len(s)}

(* --------------------------- product ----------------------------------- *)
\* mutant: add_defect without the membership test
add_defect_always_appends(defs, d) == Append(defs, d)

\* Chocolate.add_defect on the list held by the product
add_defect(defs, d) == IF d \notin Range(defs) THEN Append(defs, d) ELSE defs

base_evaluate_quality(defs) ==
  IF defs = <<>> THEN "APPROVED" ELSE "REJECTED"

molded_evaluate_quality(defs) ==
  IF \/ "BUBBLES" \in Range(defs)
     \/ "BREAKAGE" \in Range(defs)
     \/ "INCORRECT_SHAPE" \in Range(defs)
  THEN "REJECTED" ELSE "APPROVED"

\* mutant: the packaging rule without the missing-piece criterion
packaged_ignores_missing_piece(defs) ==
  IF \/ "BREAKAGE" \in Range(defs)
     \/ "DAMAGED_PACKAGING" \in Range(defs)
  THEN "REJECTED" ELSE "APPROVED"

packaged_evaluate_quality(defs) ==
  IF \/ "BREAKAGE" \in Range(defs)
     \/ "DAMAGED_PACKAGING" \in Range(defs)
     \/ "MISSING_PIECE" \in Range(defs)
  THEN "REJECTED" ELSE "APPROVED"

\* dynamic dispatch of chocolate.evaluate_quality()
evaluate_quality(type, defs) ==
  CASE type = "MoldedChocolate"   -> molded_evaluate_quality(defs)
    [] type = "PackagedChocolate" -> packaged_evaluate_quality(defs)
    [] OTHER                      -> base_evaluate_quality(defs)

(* ---------------------------- sensor ----------------------------------- *)
\* random.choices(population, k = random.randint(0, maxk))
Choices(population, maxk) ==
  UNION {[1..k -> population] : k \in 0..maxk}

analyze_molding ==
  Choices({"BUBBLES", "BREAKAGE", "INCORRECT_SHAPE", "STAINS"}, 2)

analyze_packaging ==
  Choices({"BREAKAGE", "DAMAGED_PACKAGING", "MISSING_PIECE"}, 1)

\* the lists VisualSensor.detect_defects may return for a product of this class
detect_defects(type) ==
  CASE type = "MoldedChocolate"   -> analyze_molding
    [] type = "PackagedChocolate" -> analyze_packaging
    [] OTHER                      -> {<<>>}

\* the list without its repeated elements, first occurrences kept
RECURSIVE dedup(_, _)
dedup(acc, s) ==
  IF s = <<>> THEN acc
  ELSE dedup(IF Head(s) \in Range(acc) THEN acc ELSE Append(acc, Head(s)),
             Tail(s))

(* ------------------------ control system ------------------------------- *)
\* mutant: the detected defects replace the product's defects
replace_all(defs, detected) == dedup(<<>>, detected)

\* "for defect in defects: chocolate.add_defect(defect)"
RECURSIVE add_all(_, _)
add_all(defs, detected) ==
  IF detected = <<>> THEN defs
  ELSE add_all(add_defect(defs, Head(detected)), Tail(detected))

\* mutant: the record lists each detected kind once
make_record_dedup(bid, type, detected, result, process) ==
  [batch_id       |-> bid,
   process        |-> process,
   defects        |-> LET u == dedup(<<>>, detected)
                      IN [i \in 1..Len(u) |-> DefectValue(u[i])],
   result         |-> StatusValue(result),
   chocolate_type |-> type]

\* the record built by _register_result
make_record(bid, type, detected, result, process) ==
  [batch_id       |-> bid,
   process        |-> process,
   defects        |-> [i \in 1..Len(detected) |-> DefectValue(detected[i])],
   result         |-> StatusValue(result),
   chocolate_type |-> type]

\* mutant: the new record overwrites the last one
register_result_overwrites(ledger, bid, type, detected, result, process) ==
  IF ledger = <<>>
  THEN <<make_record(bid, type, detected, result, process)>>
  ELSE [ledger EXCEPT ![Len(ledger)] =
          make_record(bid, type, detected, result, process)]

_register_result(ledger, bid, type, detected, result, process) ==
  Append(ledger, make_record(bid, type, detected, result, process))

(* ---------------------------- reports ----------------------------------- *)
\* sum(1 for r in self._results if r['result'] == QualityStatus.APPROVED.value)
RECURSIVE count_approved(_)
count_approved(ledger) ==
  IF ledger = <<>> THEN 0
  ELSE (IF Head(ledger).result = StatusValue("APPROVED") THEN 1 ELSE 0)
       + count_approved(Tail(ledger))

\* mutant: integer division of approved by total
approval_rate_floor(approved, total) ==
  IF total > 0 THEN (approved \div total) * 10000 ELSE 0

\* (approved / total * 100) as printed by {:.2f}, in hundredths of a percent
approval_rate(approved, total) ==
  IF total > 0 THEN (2 * approved * 10000 + total) \div (2 * total) ELSE 0

\* defect_counter[defect] = defect_counter.get(defect, 0) + 1
count_one(counter, v) ==
  [x \in (DOMAIN counter) \cup {v} |->
     IF x = v THEN (IF v \in DOMAIN counter THEN counter[v] ELSE 0) + 1
     ELSE counter[x]]

RECURSIVE count_list(_, _)
count_list(counter, vals) ==
  IF vals = <<>> THEN counter
  ELSE count_list(count_one(counter, Head(vals)), Tail(vals))

RECURSIVE count_defects(_, _)
count_defects(counter, ledger) ==
  IF ledger = <<>> THEN counter
  ELSE count_defects(count_list(counter, Head(ledger).defects), Tail(ledger))

EmptyCounter == [x \in {} |-> 0]

\* the content of the text returned by generate_report
generate_report(ledger) ==
  IF ledger = <<>>
  THEN [no_data |-> TRUE, total |-> 0, approved |-> 0, rejected |-> 0,
        rate |-> 0, defect_counter |-> EmptyCounter]
  ELSE LET total_inspections == Len(ledger)
           approved == count_approved(ledger)
       IN [no_data        |-> FALSE,
           total          |-> total_inspections,
           approved       |-> approved,
           rejected       |-> total_inspections - approved,
           rate           |-> approval_rate(approved, total_inspections),
           defect_counter |-> count_defects(EmptyCounter, ledger)]

\* the content of the text returned by show_inspections: one entry per record,
\* numbered from 1; the defects line is printed only when the list is not empty
show_inspections(ledger) ==
  [i \in 1..Len(ledger) |->
     [n        |-> i,
      batch_id |-> ledger[i].batch_id,
      process  |-> ledger[i].process,
      result   |-> ledger[i].result,
      defects  |-> ledger[i].defects,
      defects_line |-> ledger[i].defects # <<>>]]

(* ------------------------------ state ---------------------------------- *)
\* the last call made by the client: its name, its process argument, the
\* sensor it registered or invoked, the defect it was given (add_defect) or
\* the list the sensor returned (inspect_chocolate), and what it returned
\* or raised
Returned(op, process, sensor, found, ret) ==
  [op |-> op, process |-> process, sensor |-> sensor, defects |-> found,
   ret |-> ret]

\* QualityControlSystem() and one product constructed by the caller
Init ==
  /\ chocolate_type \in ChocolateTypes
  /\ batch_id = BatchIdOf(chocolate_type)
  /\ defects = <<>>
  /\ quality_status = "PENDING"
  /\ sensors = [p \in Processes |-> None]
  /\ results = <<>>
  /\ inspections = 0
  /\ ncalls = 0
  /\ call = Returned("__init__", None, None, <<>>, None)

(* ----------------------------- actions --------------------------------- *)
AddDefect(d) ==
  /\ defects' = add_defect(defects, d)
  /\ call' = Returned("add_defect", None, None, <<d>>, None)
  /\ UNCHANGED <<chocolate_type, batch_id, quality_status, sensors, results,
                 inspections>>

\* mutant: evaluation consumes the defects it has judged
EvaluateConsumes ==
  /\ quality_status' = evaluate_quality(chocolate_type, defects)
  /\ defects' = <<>>
  /\ call' = Returned("evaluate_quality", None, None, <<>>, quality_status')
  /\ UNCHANGED <<chocolate_type, batch_id, sensors, results, inspections>>

Evaluate ==
  /\ quality_status' = evaluate_quality(chocolate_type, defects)
  /\ call' = Returned("evaluate_quality", None, None, <<>>, quality_status')
  /\ UNCHANGED <<chocolate_type, batch_id, defects, sensors, results,
                 inspections>>

\* mutant: a registered process keeps its first sensor (dict.setdefault)
register_sensor_keeps_first(process, sensor) ==
  /\ sensors' = IF sensors[process] = None
                THEN [sensors EXCEPT ![process] = sensor] ELSE sensors
  /\ call' = Returned("register_sensor", process, sensor, <<>>, None)
  /\ UNCHANGED <<product, results, inspections>>

register_sensor(process, sensor) ==
  /\ sensors' = [sensors EXCEPT ![process] = sensor]
  /\ call' = Returned("register_sensor", process, sensor, <<>>, None)
  /\ UNCHANGED <<product, results, inspections>>

\* mutant: the registration check comes after the result is registered
InspectUnregisteredRecords(process) ==
  /\ sensors[process] = None
  /\ results' = _register_result(results, batch_id, chocolate_type, <<>>,
                                 quality_status, process)
  /\ call' = Returned("inspect_chocolate", process, None, <<>>,
                      UnregisteredProcessError)
  /\ UNCHANGED <<product, sensors, inspections>>

\* inspect_chocolate when "process not in self._sensors"
InspectUnregistered(process) ==
  /\ sensors[process] = None
  /\ call' = Returned("inspect_chocolate", process, None, <<>>,
                      UnregisteredProcessError)
  /\ UNCHANGED <<product, sensors, results, inspections>>

\* mutant: the product is evaluated before the detected defects are merged
InspectEvaluatesFirst(process) ==
  /\ sensors[process] # None
  /\ \E detected \in detect_defects(chocolate_type) :
       LET result == evaluate_quality(chocolate_type, defects)
       IN /\ defects' = add_all(defects, detected)
          /\ quality_status' = result
          /\ results' = _register_result(results, batch_id, chocolate_type,
                                         detected, result, process)
          /\ call' = Returned("inspect_chocolate", process, sensors[process],
                              detected, result)
  /\ inspections' = inspections + 1
  /\ UNCHANGED <<chocolate_type, batch_id, sensors>>

\* inspect_chocolate when a sensor is registered: detect, merge, evaluate, record
InspectRegistered(process) ==
  /\ sensors[process] # None
  /\ \E detected \in detect_defects(chocolate_type) :
       LET merged == add_all(defects, detected)
           result == evaluate_quality(chocolate_type, merged)
       IN /\ defects' = merged
          /\ quality_status' = result
          /\ results' = _register_result(results, batch_id, chocolate_type,
                                         detected, result, process)
          /\ call' = Returned("inspect_chocolate", process, sensors[process],
                              detected, result)
  /\ inspections' = inspections + 1
  /\ UNCHANGED <<chocolate_type, batch_id, sensors>>

inspect_chocolate(process) ==
  \/ InspectUnregistered(process)
  \/ InspectRegistered(process)

GenerateReport ==
  /\ call' = Returned("generate_report", None, None, <<>>,
                      generate_report(results))
  /\ UNCHANGED <<product, sensors, results, inspections>>

ShowInspections ==
  /\ call' = Returned("show_inspections", None, None, <<>>,
                      show_inspections(results))
  /\ UNCHANGED <<product, sensors, results, inspections>>

(* -------------------------- specifications ----------------------------- *)
Call ==
  \/ \E d \in DefectType : AddDefect(d)
  \/ Evaluate
  \/ \E p \in Processes, s \in SensorIds : register_sensor(p, s)
  \/ \E p \in Processes : inspect_chocolate(p)
  \/ GenerateReport
  \/ ShowInspections

Next ==
  /\ ncalls < MaxCalls
  /\ ncalls' = ncalls + 1
  /\ Call

Spec == Init /\ [][Next]_vars

\* the product alone: the defect lists a caller builds with add_defect
ProductCall ==
  \/ \E d \in DefectType : AddDefect(d)
  \/ Evaluate

NextProduct ==
  /\ ncalls < MaxProductCalls
  /\ ncalls' = ncalls + 1
  /\ ProductCall

SpecProduct == Init /\ [][NextProduct]_vars

(* ------------------------ vocabulary of the claims ---------------------- *)
MoldedFatal == {"BUBBLES", "BREAKAGE", "INCORRECT_SHAPE"}
PackagedFatal == {"BREAKAGE", "DAMAGED_PACKAGING", "MISSING_PIECE"}

\* the status the documented rule of a product class gives on a defect set
RuleStatus(type, D) ==
  CASE type = "MoldedChocolate" ->
         IF D \cap MoldedFatal # {} THEN "REJECTED" ELSE "APPROVED"
    [] type = "PackagedChocolate" ->
         IF D \cap PackagedFatal # {} THEN "REJECTED" ELSE "APPROVED"
    [] OTHER ->
         IF D # {} THEN "REJECTED" ELSE "APPROVED"

\* the recorded names of the defect kinds that are fatal for a product class
FatalValues(type) ==
  CASE type = "MoldedChocolate" -> {"air_bubbles", "breakage", "incorrect_shape"}
    [] type = "PackagedChocolate" ->
         {"breakage", "damaged_packaging", "missing_piece"}
    [] OTHER -> {"air_bubbles", "breakage", "incorrect_shape", "stains",
                 "missing_piece", "damaged_packaging"}

IsPrefix(s, t) ==
  /\ Len(s) <= Len(t)
  /\ \A i \in 1..Len(s) : s[i] = t[i]

Last(s) == s[Len(s)]

\* the step is a call of inspect_chocolate that returned a status
InspectedStep ==
  /\ call'.op = "inspect_chocolate"
  /\ call'.ret # UnregisteredProcessError

Inspected ==
  /\ call.op = "inspect_chocolate"
  /\ call.ret # UnregisteredProcessError

(* ------------------------------- C1 ------------------------------------ *)
\* C1: a call of inspect_chocolate for a process that has no registered
\* sensor fails with the unregistered-process error and leaves the ledger,
\* the registry and the product (defects, status) as they were.
C1_UnregisteredInspectFails ==
  [][(call'.op = "inspect_chocolate" /\ sensors[call'.process] = None)
       => /\ call'.ret = UnregisteredProcessError
          /\ results' = results
          /\ sensors' = sensors
          /\ defects' = defects
          /\ quality_status' = quality_status]_vars

\* a failed inspection on a system whose ledger already holds a record
C1_Witness ==
  /\ call.op = "inspect_chocolate"
  /\ call.ret = UnregisteredProcessError
  /\ results # <<>>
  /\ defects # <<>>

(* ------------------------------- C2 ------------------------------------ *)
\* C2: the ledger length equals the number of successful inspect calls made
\* so far, and every step leaves the old ledger as a prefix of the new one
\* (it never shrinks and no record is moved or rewritten).
C2_LedgerAppendOnly ==
  /\ [](Len(results) = inspections)
  /\ [][IsPrefix(results, results')]_vars

\* two successful inspections have been made and a report was then produced
C2_Witness ==
  /\ Len(results) = 2
  /\ inspections = 2
  /\ ncalls = 4
  /\ call.op \in {"generate_report", "show_inspections"}

(* ------------------------------- C3 ------------------------------------ *)
\* C3 as stated: in every reachable state the product's status equals what
\* its class's rule yields on the defect set it currently holds.
C3_StatusAlwaysCurrent ==
  quality_status = RuleStatus(chocolate_type, Range(defects))

\* C3 amended: the status is pending until the first evaluation; a call of
\* evaluate_quality or a successful inspect_chocolate sets it to what the
\* rule yields on the defect set the product then holds; every other call,
\* add_defect included, leaves it unchanged.
C3_StatusSetByEvaluation ==
  [][/\ (call'.op = "evaluate_quality" \/ InspectedStep)
          => quality_status' = RuleStatus(chocolate_type, Range(defects'))
     /\ ~(call'.op = "evaluate_quality" \/ InspectedStep)
          => quality_status' = quality_status]_vars

\* an approved molded product was given a fatal defect and not re-evaluated
C3_Witness ==
  /\ chocolate_type = "MoldedChocolate"
  /\ call.op = "add_defect"
  /\ quality_status = "APPROVED"
  /\ "BREAKAGE" \in Range(defects)

(* ------------------------------- C4 ------------------------------------ *)
\* C4: evaluate_quality on a molded product returns and stores rejected iff
\* its defects intersect {bubbles, breakage, incorrect_shape}, on a packaged
\* product iff they intersect {breakage, damaged_packaging, missing_piece};
\* otherwise it returns approved, never pending.
C4_VariantRules ==
  [][call'.op = "evaluate_quality" =>
       /\ call'.ret = quality_status'
       /\ call'.ret \in {"APPROVED", "REJECTED"}
       /\ chocolate_type = "MoldedChocolate" =>
            (call'.ret = "REJECTED" <=> Range(defects) \cap MoldedFatal # {})
       /\ chocolate_type = "PackagedChocolate" =>
            (call'.ret = "REJECTED" <=> Range(defects) \cap PackagedFatal # {})
    ]_vars

\* a packaged product holding bubbles, incorrect_shape and stains is approved
C4_Witness ==
  /\ chocolate_type = "PackagedChocolate"
  /\ Range(defects) = {"BUBBLES", "INCORRECT_SHAPE", "STAINS"}
  /\ call.op = "evaluate_quality"
  /\ call.ret = "APPROVED"
  /\ quality_status = "APPROVED"

(* ------------------------------- C5 ------------------------------------ *)
\* C5: a successful inspect_chocolate appends exactly one record, as the last
\* ledger entry, whose defect list is the list the sensor returned in this
\* call (same order, duplicates kept), whose status is the returned status
\* and the product's status after the call, and whose batch id, process and
\* class name are those of the call; [bubbles] on a fresh molded product
\* gives rejected and defects ["air_bubbles"], [] on a fresh packaged
\* product gives approved and defects [].
C5_InspectRecordsCall ==
  [][InspectedStep =>
       /\ Len(results') = Len(results) + 1
       /\ IsPrefix(results, results')
       /\ LET r == Last(results')
              found == call'.defects
          IN /\ Len(r.defects) = Len(found)
             /\ \A i \in 1..Len(found) : r.defects[i] = DefectValue(found[i])
             /\ r.result = StatusValue(call'.ret)
             /\ call'.ret = quality_status'
             /\ r.batch_id = batch_id
             /\ r.process = call'.process
             /\ r.chocolate_type = chocolate_type
             /\ (chocolate_type = "MoldedChocolate" /\ defects = <<>>
                 /\ found = <<"BUBBLES">>)
                  => (call'.ret = "REJECTED" /\ r.result = "rejected"
                      /\ r.defects = <<"air_bubbles">>)
             /\ (chocolate_type = "PackagedChocolate" /\ defects = <<>>
                 /\ found = <<>>)
                  => (call'.ret = "APPROVED" /\ r.result = "approved"
                      /\ r.defects = <<>>)
    ]_vars

\* the sensor returned a duplicate on a product that already held defects:
\* the record lists the pair, the product's list does not
C5_Witness ==
  /\ Inspected
  /\ chocolate_type = "MoldedChocolate"
  /\ Last(results).defects = <<"stains", "stains">>
  /\ Len(results) = 2
  /\ Len(defects) = 3

(* ------------------------------- C6 ------------------------------------ *)
\* C6: the summary report's total is the ledger length, its approved count
\* the number of records with status approved, its rejected count total
\* minus approved and its rate approved/total x 100 (to two decimals) when
\* total > 0; on an empty ledger it states that no data is available.  Two
\* approved inspections give total 2, approved 2, rejected 0, rate 100.00.
C6_SummaryReport ==
  call.op = "generate_report" =>
    LET rep == call.ret
        ok  == {i \in 1..Len(results) : results[i].result = "approved"}
    IN /\ rep.no_data <=> (Len(results) = 0)
       /\ ~rep.no_data =>
            /\ rep.total = Len(results)
            /\ rep.approved = Cardinality(ok)
            /\ rep.rejected = rep.total - rep.approved
            /\ 2 * (rep.rate * rep.total - rep.approved * 10000) <= rep.total
            /\ 2 * (rep.approved * 10000 - rep.rate * rep.total) <= rep.total
       /\ (Len(results) = 2 /\ Cardinality(ok) = 2) =>
            (rep.total = 2 /\ rep.approved = 2 /\ rep.rejected = 0
             /\ rep.rate = 10000)

\* a report over one approved and one rejected inspection
C6_Witness ==
  /\ call.op = "generate_report"
  /\ Len(results) = 2
  /\ results[1].result = "approved"
  /\ results[2].result = "rejected"
  /\ call.ret.rate = 5000

(* ------------------------------- C7 ------------------------------------ *)
\* C7: register_sensor always succeeds and changes only the registry entry
\* of its process, which then holds the sensor just registered; the other
\* entries, the ledger and the product are unchanged; a successful inspect
\* on a process invokes the sensor the registry holds for it, i.e. the one
\* registered last.
C7_RegisterOverwrites ==
  [][/\ call'.op = "register_sensor" =>
          /\ call'.ret = None
          /\ sensors'[call'.process] = call'.sensor
          /\ \A p \in Processes \ {call'.process} : sensors'[p] = sensors[p]
          /\ results' = results
          /\ defects' = defects
          /\ quality_status' = quality_status
     /\ InspectedStep =>
          /\ call'.sensor = sensors[call'.process]
          /\ call'.sensor \in SensorIds
          /\ sensors' = sensors]_vars

\* a process that was already inspected is registered again
C7_Witness ==
  /\ call.op = "register_sensor"
  /\ call.process = "molding"
  /\ call.sensor = "sensorB"
  /\ sensors["packaging"] = None
  /\ results # <<>>

(* ------------------------------- C8 ------------------------------------ *)
\* C8: the product's defects behave as a grow-only set: the list never holds
\* a kind twice, no call removes a kind, and add_defect of a kind the
\* product already holds changes nothing (adding twice equals adding once).
C8_DefectsGrowOnlySet ==
  /\ [](Cardinality(Range(defects)) = Len(defects))
  /\ [][/\ Range(defects) \subseteq Range(defects')
        /\ call'.op = "add_defect" =>
             /\ Range(defects') = Range(defects) \cup Range(call'.defects)
             /\ Range(call'.defects) \subseteq Range(defects)
                  => defects' = defects]_vars

\* the sensor returned the same kind twice in one call
C8_Witness ==
  /\ Inspected
  /\ call.defects = <<"BUBBLES", "BUBBLES">>
  /\ defects = <<"STAINS", "BUBBLES">>

(* ------------------------------- C9 ------------------------------------ *)
\* C9: evaluate_quality is idempotent for every product class: a call that
\* follows another evaluation with no add_defect in between returns the
\* same status; and it changes nothing but the status.
C9_EvaluateIdempotent ==
  [][call'.op = "evaluate_quality" =>
       /\ call.op = "evaluate_quality" =>
            (call'.ret = call.ret /\ quality_status' = quality_status)
       /\ defects' = defects
       /\ batch_id' = batch_id
       /\ chocolate_type' = chocolate_type
       /\ results' = results
       /\ sensors' = sensors]_vars

\* a base product has been evaluated twice in a row
C9_Witness ==
  /\ chocolate_type = "Chocolate"
  /\ ncalls = 2
  /\ defects = <<>>
  /\ call.op = "evaluate_quality"
  /\ quality_status = "APPROVED"

(* ------------------------------- C10 ----------------------------------- *)
\* C10: once the status is rejected, every later successful inspect of the
\* product returns rejected and records rejected, whatever the sensor
\* returns; and a record with status approved never lists a defect kind
\* that is fatal for the record's product class.
C10_RejectionPermanent ==
  /\ [][(quality_status = "REJECTED" /\ InspectedStep) =>
          /\ call'.ret = "REJECTED"
          /\ quality_status' = "REJECTED"
          /\ Last(results').result = "rejected"]_vars
  /\ [](\A i \in 1..Len(results) :
          results[i].result = "approved" =>
            Range(results[i].defects) \cap FatalValues(results[i].chocolate_type)
              = {})

\* a rejected product is inspected again, the sensor finds nothing, and the
\* record is rejected with an empty defect list
C10_Witness ==
  /\ Inspected
  /\ call.defects = <<>>
  /\ Len(results) = 2
  /\ results[1].result = "rejected"
  /\ results[2].result = "rejected"
  /\ results[2].defects = <<>>

====
